---------------------------- MODULE Spec2Model ----------------------------
(***************************************************************************)
(* Verification model of the economic_algorithms repository.               *)
(*                                                                         *)
(*   nitay_levy_matala_9.py  compute_budget and                            *)
(*                           no_binary_search_compute_budget (median       *)
(*                           budget aggregation with a phantom value and   *)
(*                           largest-remainder rounding)                   *)
(*   nitay_levy_matala_4.py  envy_free_room_allocation (welfare-maximizing *)
(*                           assignment, prices from longest paths)        *)
(*   nitay_levy_matala_3.py  egalitarian_assignment (binary search over    *)
(*                           the utilities with a matching oracle)         *)
(*                                                                         *)
(* Each program has its own variables and its own specification            *)
(* (SpecBudget, SpecMedian, SpecRoom, SpecEgal); the library calls         *)
(* linear_sum_assignment and maximum_bipartite_matching are oracles that   *)
(* return any of the results their contract allows.                        *)
(*                                                                         *)
(* Numbers.  The Python code computes in binary64.  Here every real value  *)
(* is an exact rational, kept as an integer numerator over a denominator   *)
(* that the operator's comment names.  Two effects of binary64 change the  *)
(* results of the code and are modelled:                                   *)
(*   - the forward difference (f(x + 1e-8) - f(x)) / 1e-8 is taken at a    *)
(*     rounded point, so the computed slope is the exact slope times       *)
(*     (1 + e); the sign and relative size of e are those of binary64      *)
(*     (RelErr), in "exact" arithmetic e = 0;                              *)
(*   - the sum c + x of the two middle elements is rounded to the grid of  *)
(*     its binade; which way depends on the low-order bits of x and is a   *)
(*     nondeterministic choice (fl_ulp), the same for both functions.      *)
(* Every other operation is exact.                                         *)
(***************************************************************************)
EXTENDS Integers, Sequences, FiniteSets, TLC

VARIABLES
    total_budget,   \* argument total_budget
    citizen_votes,  \* argument citizen_votes: sequence of citizens, each a sequence of amounts
    arith,          \* "binary64": arithmetic as the code runs it; "exact": real arithmetic
    fl_ulp,         \* per subject, the direction in which c + x was rounded (<<>>: no call yet)
    result,         \* per function: what the call computed and returned
    med_votes,      \* get_subject_allocation: argument votes, one amount per citizen
    med_citizen,    \* the citizen whose amount is raised
    med_amount,     \* the raised amount
    med_x,          \* argument x, in units of 1 / MedDen
    med_out,        \* the allocations before and after the raise (<<>>: not called)
    valuations,     \* envy_free_room_allocation: argument valuations, player by room
    rent,           \* argument rent
    verbose,        \* argument verbose
    room,           \* what the call computed and returned
    mat,            \* egalitarian_assignment: argument mat
    lo,             \* lower index of the binary search
    hi,             \* upper index of the binary search
    best_threshold, \* best_threshold
    best_assignment,\* best_assignment: item of every person (<<>>: None)
    egal_pc         \* "loop": in the while loop; "returned": after return

varsBudget == <<total_budget, citizen_votes, arith, fl_ulp, result>>

varsMedian == <<med_votes, med_citizen, med_amount, med_x, med_out>>

varsRoom == <<valuations, rent, verbose, room>>

varsEgal == <<mat, lo, hi, best_threshold, best_assignment, egal_pc>>

vars == <<varsBudget, varsMedian, varsRoom, varsEgal>>

-----------------------------------------------------------------------------
(* Bounds of the model. *)
MaxCitizens == 3
MaxSubjects == 2
MaxCells == 4
MaxVote == 7
MaxBudget == 6
MedMaxCitizens == 3
MedMaxVote == 3
MedMaxX == 8
(* The phantom value x of the median calls runs over multiples of 1 / MedDen. *)
MedDen == 2
RoomMaxPlayers == 3
MaxValuation == 1
MaxRent == 2
EgalMaxPersons == 3
MaxUtility == 3
MaxTotalUtility == 6

(* eps = 1e-8 of get_total_and_slope, as 1 / EpsDen. *)
EpsDen == 100000000
(* The tolerance 1e-9 of the segment scan and of the slope test, as 1 / TolDen. *)
TolDen == 1000000000
(* round(..., 10) of no_binary_search_compute_budget's sort key. *)
RoundDigits == 10
(* Relative rounding errors are counted in units of 1 / RelErrDen (see RelErr). *)
RelErrDen == 1000000

Functions == {"compute_budget", "no_binary_search_compute_budget"}

-----------------------------------------------------------------------------
(* Helpers. *)

RECURSIVE SumSeq(_)
SumSeq(s) == IF s = <<>> THEN 0 ELSE Head(s) + SumSeq(Tail(s))

RECURSIVE SetToSortedSeq(_)
SetToSortedSeq(S) ==
    IF S = {} THEN <<>>
    ELSE LET m == CHOOSE x \in S : \A y \in S : x <= y
         IN  <<m>> \o SetToSortedSeq(S \ {m})

Ascending(s) == SortSeq(s, LAMBDA a, b : a < b)


RECURSIVE Pow10(_)
Pow10(k) == IF k = 0 THEN 1 ELSE 10 * Pow10(k - 1)

-----------------------------------------------------------------------------
(* Vote Preprocessor. *)

NumSubjects == Len(citizen_votes[1])

(* votes_per_subject: for each subject the citizens' amounts, ascending. *)
VotesPerSubject ==
    [i \in 1..NumSubjects |->
        Ascending([c \in 1..Len(citizen_votes) |-> citizen_votes[c][i]])]

(* sorted_breaks: 0 and every submitted amount, ascending, without repeats. *)
SortedBreaks ==
    SetToSortedSeq({0} \cup
        {citizen_votes[c][i] : c \in 1..Len(citizen_votes), i \in 1..NumSubjects})

-----------------------------------------------------------------------------
(* Median Allocation Function. *)

(* arr of get_subject_allocation for x = xn / den, every element scaled by den. *)
MedianArray(votes, xn, den) ==
    Ascending([k \in 1..Len(votes) |-> votes[k] * den] \o <<0, xn>>)

(* A median that takes the gap between the two middle elements for their    *)
(* mean.                                                                     *)
MiddleGap(votes, xn, den) ==
    LET arr == MedianArray(votes, xn, den)
        n == Len(arr)
    IN  IF n % 2 = 1
        THEN 2 * arr[n \div 2 + 1]
        ELSE arr[n \div 2 + 1] - arr[n \div 2]

(* get_subject_allocation(votes, xn / den), as a numerator over 2 * den:     *)
(* the middle element, or the mean of the two middle elements.               *)
GetSubjectAllocation(votes, xn, den) ==
    LET arr == MedianArray(votes, xn, den)
        n == Len(arr)
    IN  IF n % 2 = 1
        THEN 2 * arr[n \div 2 + 1]
        ELSE arr[n \div 2] + arr[n \div 2 + 1]


-----------------------------------------------------------------------------
(* Aggregate Function. *)

(* The relative error of the forward difference taken at an operand of      *)
(* magnitude v.  In binary64                                                 *)
(*   ((v + 1e-8) - v) / 1e-8 = 1                 for v = 0                  *)
(*                           = 1 - 6.08e-9       for 1 <= v < 8             *)
(*                           = 1 + 8.27e-8       for 8 <= v < 64            *)
(*                           = 1 - 6.28e-7       for 64 <= v < 128          *)
(*                           = 1 + 7.93e-7       for 128 <= v < 1024        *)
(* One unit of 1 / RelErrDen stands for 6.08e-9: the errors are magnified by *)
(* a common factor that keeps every product within 32 bits; their signs and *)
(* ratios are kept, and they stay far below the gaps between the fractions  *)
(* they are compared with.                                                   *)
RelErr(v) ==
    IF arith = "exact" \/ v = 0 THEN 0
    ELSE IF v < 8 THEN -1
    ELSE IF v < 64 THEN 14
    ELSE IF v < 128 THEN -103
    ELSE 130

(* v_now = get_subject_allocation(votes, x) at a breakpoint x, in halves. *)
VNow(votes, x) == GetSubjectAllocation(votes, x, 1)

(* v_next - v_now for v_next = get_subject_allocation(votes, x + eps), as a  *)
(* numerator over 2 * EpsDen: 0, 1 or 2.                                     *)
StepDiff(votes, x) ==
    GetSubjectAllocation(votes, x * EpsDen + 1, EpsDen) - VNow(votes, x) * EpsDen

(* The operand whose sum with eps is rounded: x itself when the median is    *)
(* one element, the sum of the two middle elements otherwise.                *)
RoundedOperand(votes, x) ==
    IF (Len(votes) + 2) % 2 = 1 THEN VNow(votes, x) \div 2 ELSE VNow(votes, x)

(* (v_next - v_now) / eps as the code computes it, a numerator over          *)
(* 2 * RelErrDen.                                                            *)
ForwardDifference(votes, x) ==
    LET diff == StepDiff(votes, x)
    IN  IF diff = 0 THEN 0
        ELSE diff * (RelErrDen + RelErr(RoundedOperand(votes, x)))

(* total of get_total_and_slope, in halves: the same code in both functions. *)
Total(vps, x) == SumSeq([i \in 1..Len(vps) |-> VNow(vps[i], x)])

(* get_total_and_slope of compute_budget: a subject adds to the slope only   *)
(* when v_next > v_now.  total in halves, slope over 2 * RelErrDen.          *)
GetTotalAndSlopeCB(vps, x) ==
    [total |-> Total(vps, x),
     slope |-> SumSeq([i \in 1..Len(vps) |->
                    IF StepDiff(vps[i], x) > 0
                    THEN ForwardDifference(vps[i], x) ELSE 0])]

(* get_total_and_slope of no_binary_search_compute_budget: every subject's   *)
(* difference quotient is added.                                             *)
GetTotalAndSlopeNB(vps, x) ==
    [total |-> Total(vps, x),
     slope |-> SumSeq([i \in 1..Len(vps) |-> ForwardDifference(vps[i], x)])]

GetTotalAndSlope(f, vps, x) ==
    IF f = "compute_budget" THEN GetTotalAndSlopeCB(vps, x)
    ELSE GetTotalAndSlopeNB(vps, x)

-----------------------------------------------------------------------------
(* Phantom-Value Solver. *)

(* num / den > 1e-9, for den > 0. *)
AboveTol(num, den) == num > den \div TolDen

(* sum_low <= total_budget <= sum_high + 1e-9, the sums in halves. *)
InSegment(sum_low, sum_high) ==
    /\ sum_low <= 2 * total_budget
    /\ ~ AboveTol(2 * total_budget - sum_high, 2)

(* The for loop over consecutive breakpoints: the index of the first segment *)
(* that holds total_budget, 0 when the loop ends without break.  The test    *)
(* reads only the totals of get_total_and_slope(x_low) and (x_high).         *)
RECURSIVE FindSegment(_, _, _)
FindSegment(vps, breaks, i) ==
    IF i > Len(breaks) - 1 THEN 0
    ELSE IF InSegment(Total(vps, breaks[i]), Total(vps, breaks[i + 1]))
         THEN i
         ELSE FindSegment(vps, breaks, i + 1)

(* A solver that steps from x_low by the missing amount itself, as if the     *)
(* slope were 1.                                                             *)
InterpolateUnitSlope(x_low, ts) ==
    [n |-> 2 * x_low + (2 * total_budget - ts.total), d |-> 2]

(* x_low + (total_budget - sum_low) / slope_low when slope_low > 1e-9, else  *)
(* x_low; the rational n / d.                                                *)
Interpolate(x_low, ts) ==
    IF AboveTol(ts.slope, 2 * RelErrDen)
    THEN [n |-> x_low * ts.slope + (2 * total_budget - ts.total) * RelErrDen,
          d |-> ts.slope]
    ELSE [n |-> x_low, d |-> 1]

(* target_x, with the segment it was found in (seg = 0: past the largest     *)
(* breakpoint).                                                              *)
Solve(f) ==
    LET vps == VotesPerSubject
        breaks == SortedBreaks
        seg == FindSegment(vps, breaks, 1)
        at == IF seg = 0 THEN Len(breaks) ELSE seg
    IN  [seg |-> seg,
         x_low |-> breaks[at],
         x_high |-> IF seg = 0 THEN breaks[at] ELSE breaks[at + 1],
         target_x |-> Interpolate(breaks[at], GetTotalAndSlope(f, vps, breaks[at]))]

-----------------------------------------------------------------------------
(* Integer Rounding Engine. *)

(* floats: get_subject_allocation at target_x, numerators over 2 * t.d. *)
Floats(t) ==
    LET vps == VotesPerSubject
    IN  [i \in 1..Len(vps) |-> GetSubjectAllocation(vps[i], t.n, t.d)]

(* int(math.floor(f + 1e-11)) for f = fn / den: f + 1e-11 reaches the next   *)
(* integer when that integer is at most den / 10^11 numerator units away.    *)
FloorTol(fn, den) ==
    LET k == fn \div den
        gap == (k + 1) * den - fn
    IN  IF gap <= (den \div Pow10(5)) \div Pow10(6) THEN k + 1 ELSE k

(* A rounding stage that truncates one unit too low. *)
FloorsOneBelow(floats, den) ==
    [i \in 1..Len(floats) |-> IF floats[i] >= den THEN floats[i] \div den - 1 ELSE 0]

(* ints before the remainder is distributed. *)
Floors(floats, den) == [i \in 1..Len(floats) |-> FloorTol(floats[i], den)]

(* floats[i] - ints[i] in exact arithmetic, numerators over den. *)
Fractions(floats, den) ==
    [i \in 1..Len(floats) |-> floats[i] - FloorTol(floats[i], den) * den]

(* The first k decimal digits of r / den (0 <= r < den) as an integer, with  *)
(* the remainder of the long division.                                       *)
RECURSIVE LongDiv(_, _, _)
LongDiv(r, den, k) ==
    IF k = 0 THEN [q |-> 0, r |-> r]
    ELSE LET rest == LongDiv(r, den, k - 1)
         IN  [q |-> 10 * rest.q + (10 * rest.r) \div den,
              r |-> (10 * rest.r) % den]

(* round(num / den, 10), half to even, as the pair of its first five and its *)
(* last five decimal digits.                                                 *)
Round10(num, den) ==
    LET half == RoundDigits \div 2
        head == LongDiv(num, den, half)
        tail == LongDiv(head.r, den, RoundDigits - half)
        up == \/ 2 * tail.r > den
              \/ 2 * tail.r = den /\ tail.q % 2 = 1
    IN  IF ~ up THEN <<head.q, tail.q>>
        ELSE IF tail.q + 1 < Pow10(RoundDigits - half) THEN <<head.q, tail.q + 1>>
        ELSE <<head.q + 1, 0>>

(* Lexicographic order of two tuples of integers of the same length. *)
RECURSIVE TupleLess(_, _)
TupleLess(a, b) ==
    /\ a # <<>>
    /\ \/ Head(a) < Head(b)
       \/ Head(a) = Head(b) /\ TupleLess(Tail(a), Tail(b))

(* The sort keys.  compute_budget: (floats[i] - ints[i], -i), the difference *)
(* as the double it is: the exact fraction, then the direction u[i] in which *)
(* the double was rounded.                                                   *)
SortKeysCB(fracs, den, u) ==
    [i \in 1..Len(fracs) |-> <<fracs[i], u[i], -i>>]

(* no_binary_search_compute_budget: (round(floats[i] - ints[i], 10), -i);    *)
(* the rounding to ten digits absorbs the direction.                         *)
SortKeysNB(fracs, den, u) ==
    [i \in 1..Len(fracs) |-> Round10(fracs[i], den) \o <<-i>>]

(* indices = sorted(range(num_subjects), key=..., reverse=True). *)
Indices(keys) ==
    LET S == 1..Len(keys)
        before == [i \in S |-> Cardinality({j \in S : TupleLess(keys[i], keys[j])})]
    IN  [p \in S |-> CHOOSE i \in S : before[i] = p - 1]

(* The position read in round k (from 0) of the distribution loop:           *)
(* compute_budget reads indices[k], no_binary_search_compute_budget reads    *)
(* indices[k % num_subjects].                                                *)
Position(f, k, num_subjects) ==
    IF f = "compute_budget" THEN k ELSE k % num_subjects

(* for i in range(remainder): ints[indices[...]] += 1.  A position past the  *)
(* end of indices raises IndexError.                                         *)
RECURSIVE Distribute(_, _, _, _, _)
Distribute(f, ints, indices, k, remainder) ==
    IF k >= remainder THEN [raised |-> FALSE, ints |-> ints]
    ELSE IF Position(f, k, Len(ints)) >= Len(indices)
         THEN [raised |-> TRUE, ints |-> ints]
    ELSE LET i == indices[Position(f, k, Len(ints)) + 1]
         IN  Distribute(f, [ints EXCEPT ![i] = @ + 1], indices, k + 1, remainder)

-----------------------------------------------------------------------------
(* Rounding of the sum of the two middle elements in binary64. *)

(* The binade of n / d >= 1: the k with 2^k <= n / d < 2^(k+1); -1 below 1. *)
RECURSIVE Binade(_, _)
Binade(n, d) == IF n < d THEN -1 ELSE 1 + Binade(n, 2 * d)

(* The sum c + x of the two middle elements at x = t.n / t.d, over t.d, when *)
(* x is one of them and c >= 1; 0 otherwise.                                 *)
MiddleSum(votes, t) ==
    LET arr == MedianArray(votes, t.n, t.d)
        n == Len(arr)
        left == arr[n \div 2]
        right == arr[n \div 2 + 1]
    IN  IF n % 2 = 0 /\ (left = t.n \/ right = t.n) /\ left + right - t.n >= t.d
        THEN left + right ELSE 0

(* Per subject, the binade of a sum c + x that is not a double: x is not an  *)
(* integer and c + x lies in a higher binade than x, whose grid is coarser.  *)
(* -1 where the sum is exact.                                                *)
InexactBinades(t) ==
    LET vps == VotesPerSubject
    IN  [i \in 1..Len(vps) |->
            LET sum == MiddleSum(vps[i], t)
            IN  IF /\ arith = "binary64"
                   /\ t.n % t.d # 0
                   /\ sum # 0
                   /\ Binade(sum, t.d) # Binade(t.n, t.d)
                THEN Binade(sum, t.d) ELSE -1]

(* The directions the roundings can take: none where the sum is exact, the   *)
(* same for two sums of one binade.                                          *)
UlpVectors(t) ==
    LET b == InexactBinades(t)
    IN  {u \in [1..Len(b) -> -1..1] :
            /\ \A i \in 1..Len(b) : b[i] = -1 => u[i] = 0
            /\ \A i, j \in 1..Len(b) : b[i] = b[j] => u[i] = u[j]}

-----------------------------------------------------------------------------
(* The two entry points. *)

(* No call yet. *)
Pending ==
    [status |-> "pending", ints |-> <<>>, seg |-> 0, x_low |-> 0, x_high |-> 0,
     target_x |-> [n |-> 0, d |-> 1], floats |-> <<>>, floors |-> <<>>,
     remainder |-> 0]

(* if not citizen_votes: return [] *)
ReturnedEmpty == [Pending EXCEPT !.status = "returned"]

(* The rounding stage: floors, remainder, the distribution of the remainder. *)
RoundingStage(f, s, u) ==
    LET t == s.target_x
        floats == Floats(t)
        floors == Floors(floats, 2 * t.d)
        fracs == Fractions(floats, 2 * t.d)
        remainder == total_budget - SumSeq(floors)
        keys == IF f = "compute_budget" THEN SortKeysCB(fracs, 2 * t.d, u)
                ELSE SortKeysNB(fracs, 2 * t.d, u)
        out == IF remainder > 0
               THEN Distribute(f, floors, Indices(keys), 0, remainder)
               ELSE [raised |-> FALSE, ints |-> floors]
    IN  [status |-> IF out.raised THEN "raised" ELSE "returned",
         ints |-> out.ints,
         seg |-> s.seg, x_low |-> s.x_low, x_high |-> s.x_high, target_x |-> t,
         floats |-> floats, floors |-> floors, remainder |-> remainder]

(* One call of f: what it returns (status "returned", ints) or that it       *)
(* raises IndexError (status "raised"), with the values it computed.         *)
Call(f) ==
    /\ IF citizen_votes = <<>>
       THEN /\ result' = [result EXCEPT ![f] = ReturnedEmpty]
            /\ UNCHANGED fl_ulp
       ELSE LET s == Solve(f)
            IN  \E u \in UlpVectors(s.target_x) :
                    /\ fl_ulp = <<>> \/ fl_ulp = u
                    /\ fl_ulp' = u
                    /\ result' = [result EXCEPT ![f] = RoundingStage(f, s, u)]
    /\ UNCHANGED <<total_budget, citizen_votes, arith>>
    /\ UNCHANGED <<varsMedian, varsRoom, varsEgal>>

ComputeBudget ==
    /\ result["compute_budget"].status = "pending"
    /\ Call("compute_budget")

NoBinarySearchComputeBudget ==
    /\ result["no_binary_search_compute_budget"].status = "pending"
    /\ Call("no_binary_search_compute_budget")

(* Vote matrices: every citizen gives one amount per subject. *)
VoteMatrices ==
    {<<>>} \cup
    UNION {[1..p[1] -> [1..p[2] -> 0..MaxVote]] :
             p \in {q \in (1..MaxCitizens) \X (1..MaxSubjects) :
                      q[1] * q[2] <= MaxCells}}

(* No call of get_subject_allocation on its own. *)
IdleMedian ==
    /\ med_votes = <<>>
    /\ med_citizen = 0
    /\ med_amount = 0
    /\ med_x = 0
    /\ med_out = <<>>

(* No call of envy_free_room_allocation. *)
IdleRoom ==
    /\ valuations = <<>>
    /\ rent = 0
    /\ verbose = FALSE
    /\ room = [status |-> "pending", assignment |-> <<>>, prices |-> <<>>]

(* No call of egalitarian_assignment. *)
IdleEgal ==
    /\ mat = <<>>
    /\ lo = 0
    /\ hi = 0
    /\ best_threshold = 0
    /\ best_assignment = <<>>
    /\ egal_pc = "idle"

InitBudget ==
    /\ total_budget \in 0..MaxBudget
    /\ citizen_votes \in VoteMatrices
    /\ arith \in {"exact", "binary64"}
    /\ fl_ulp = <<>>
    /\ result = [f \in Functions |-> Pending]
    /\ IdleMedian
    /\ IdleRoom
    /\ IdleEgal

NextBudget == ComputeBudget \/ NoBinarySearchComputeBudget

SpecBudget == InitBudget /\ [][NextBudget]_vars

-----------------------------------------------------------------------------
(* Properties of compute_budget and no_binary_search_compute_budget. *)

Called(f) == result[f].status # "pending"

Returned(f) == result[f].status = "returned"

(* The scan found a segment [x_low, x_high] that holds total_budget. *)
Bracketed(f) == Called(f) /\ citizen_votes # <<>> /\ result[f].seg # 0

(* C1: for a non-empty vote matrix each function returns a list of integers  *)
(* whose sum is total_budget.                                                *)
C1_ExactSum ==
    \A f \in Functions :
        (Called(f) /\ citizen_votes # <<>>) =>
            /\ Returned(f)
            /\ SumSeq(result[f].ints) = total_budget

(* C2: with total_budget = 0 each function returns a list of zeros. *)
C2_ZeroBudget ==
    \A f \in Functions :
        (Called(f) /\ citizen_votes # <<>> /\ total_budget = 0) =>
            /\ Returned(f)
            /\ \A i \in 1..Len(result[f].ints) : result[f].ints[i] = 0

(* C3: on the same input the two functions have the same outcome: the same   *)
(* output sequence, entry by entry.                                          *)
C3_Equivalence ==
    (\A f \in Functions : Called(f)) =>
        /\ result["compute_budget"].status =
               result["no_binary_search_compute_budget"].status
        /\ result["compute_budget"].ints =
               result["no_binary_search_compute_budget"].ints

(* C7: when the shortfall exceeds the number of subjects the call does not   *)
(* fail, and the units are handed out round-robin over the subjects: every   *)
(* subject gets the whole rounds, the rest of the units one more.            *)
C7_OverDistributionGuard ==
    \A f \in Functions :
        (Called(f) /\ citizen_votes # <<>> /\ result[f].remainder > NumSubjects) =>
            /\ Returned(f)
            /\ SumSeq(result[f].ints) = SumSeq(result[f].floors) + result[f].remainder
            /\ \A i \in 1..NumSubjects :
                   result[f].ints[i] - result[f].floors[i] \in
                       {result[f].remainder \div NumSubjects,
                        result[f].remainder \div NumSubjects + 1}

(* x_low <= x* for the x* = n / d of a call. *)
AtLeastLow(r) == r.x_low * r.target_x.d <= r.target_x.n

(* x* <= x_high. *)
AtMostHigh(r) == r.target_x.n <= r.x_high * r.target_x.d

(* The allocations at x* add up to total_budget. *)
SumsToBudget(r) == SumSeq(r.floats) = 2 * r.target_x.d * total_budget

(* C8, as stated: inside a bracket x_low <= x* <= x_high, and in exact        *)
(* arithmetic the allocations at x* add up to total_budget.                  *)
C8_AsStated ==
    \A f \in Functions :
        Bracketed(f) =>
            /\ AtLeastLow(result[f])
            /\ AtMostHigh(result[f])
            /\ arith = "exact" => SumsToBudget(result[f])

(* C8, amended: inside a bracket x_low <= x*, and in exact arithmetic also    *)
(* x* <= x_high and the allocations at x* add up to total_budget.            *)
C8_SolverInBracket ==
    \A f \in Functions :
        Bracketed(f) =>
            /\ AtLeastLow(result[f])
            /\ arith = "exact" =>
                   AtMostHigh(result[f]) /\ SumsToBudget(result[f])

(* C8 happens: in exact arithmetic a call interpolated to an x* strictly     *)
(* between two breakpoints.                                                  *)
C8_Witness ==
    \E f \in Functions :
        /\ Bracketed(f)
        /\ arith = "exact"
        /\ result[f].x_low * result[f].target_x.d < result[f].target_x.n
        /\ result[f].target_x.n < result[f].x_high * result[f].target_x.d

(* Subject i received one unit of the remainder. *)
Receives(r, i) == r.ints[i] = r.floors[i] + 1

(* The fractional remainder of subject i, a numerator over 2 * d. *)
Frac(r, i) == r.floats[i] - r.floors[i] * 2 * r.target_x.d

(* C9: when 0 < shortfall <= number of subjects, exactly shortfall subjects  *)
(* receive one unit, and a subject that receives one has, against a subject  *)
(* that does not, the larger remainder, or the same and the lower index.     *)
C9_LargestRemainder ==
    \A f \in Functions :
        (/\ Called(f) /\ citizen_votes # <<>>
         /\ 0 < result[f].remainder
         /\ result[f].remainder <= NumSubjects) =>
            /\ Returned(f)
            /\ \A i \in 1..NumSubjects :
                   result[f].ints[i] - result[f].floors[i] \in {0, 1}
            /\ Cardinality({i \in 1..NumSubjects : Receives(result[f], i)})
                   = result[f].remainder
            /\ \A i, j \in 1..NumSubjects :
                   (Receives(result[f], i) /\ ~ Receives(result[f], j)) =>
                       \/ Frac(result[f], i) > Frac(result[f], j)
                       \/ Frac(result[f], i) = Frac(result[f], j) /\ i < j

(* Every output entry is non-negative and is the floor of the allocation at  *)
(* x* or that floor plus one.                                                *)
FloorOrNext(r) ==
    /\ Len(r.ints) = NumSubjects
    /\ \A i \in 1..NumSubjects :
           /\ r.ints[i] >= 0
           /\ r.floors[i] = r.floats[i] \div (2 * r.target_x.d)
           /\ r.ints[i] \in {r.floors[i], r.floors[i] + 1}

-----------------------------------------------------------------------------
(* get_subject_allocation on its own: one citizen raises an amount. *)

(* No call of the budget functions. *)
IdleBudget ==
    /\ total_budget = 0
    /\ citizen_votes = <<>>
    /\ arith = "exact"
    /\ fl_ulp = <<>>
    /\ result = [f \in Functions |-> Pending]

(* votes with the amount of med_citizen raised to med_amount. *)
RaisedVotes == [med_votes EXCEPT ![med_citizen] = med_amount]

(* get_subject_allocation(votes, x) for the votes as they are and with the   *)
(* one amount raised, both in units of 1 / (2 * MedDen).                     *)
GetSubjectAllocations ==
    /\ med_out = <<>>
    /\ med_citizen \in 1..Len(med_votes)
    /\ med_out' = [before |-> GetSubjectAllocation(med_votes, med_x, MedDen),
                   after |-> GetSubjectAllocation(RaisedVotes, med_x, MedDen)]
    /\ UNCHANGED <<med_votes, med_citizen, med_amount, med_x>>
    /\ UNCHANGED <<varsBudget, varsRoom, varsEgal>>

InitMedian ==
    /\ med_votes \in UNION {[1..n -> 0..MedMaxVote] : n \in 1..MedMaxCitizens}
    /\ med_citizen \in 1..Len(med_votes)
    /\ med_amount \in (med_votes[med_citizen] + 1)..(MedMaxVote + 1)
    /\ med_x \in 0..MedMaxX
    /\ med_out = <<>>
    /\ IdleBudget
    /\ IdleRoom
    /\ IdleEgal

NextMedian == GetSubjectAllocations

SpecMedian == InitMedian /\ [][NextMedian]_vars

(* C6: raising one citizen's amount, at the same x, never lowers             *)
(* get_subject_allocation.                                                   *)
C6_Monotone == med_out # <<>> => med_out.after >= med_out.before

(* C6 happens: a raise that moves the median up. *)
C6_Witness == med_out # <<>> /\ med_out.after > med_out.before

-----------------------------------------------------------------------------
(* nitay_levy_matala_4.py: envy_free_room_allocation.  Players and rooms are *)
(* numbered from 1.  Prices are kept times the number of players, so that    *)
(* the shift (total_price - rent) / n stays an integer.                      *)

(* The assignments of every player to a room of their own. *)
Assignments(n) ==
    {a \in [1..n -> 1..n] : \A i, j \in 1..n : a[i] = a[j] => i = j}

(* The sum of the players' values for their rooms. *)
Welfare(v, a) == SumSeq([i \in 1..Len(v) |-> v[i][a[i]]])

(* linear_sum_assignment(cost) for cost = -valuations: the assignments of    *)
(* least cost, any of which the call may return.                             *)
LinearSumAssignment(v) ==
    {a \in Assignments(Len(v)) :
        \A b \in Assignments(Len(v)) : Welfare(v, b) <= Welfare(v, a)}

(* edges: (i, j, w) for i, then for j # i, with                              *)
(* w = valuations[i][ri] - valuations[i][rj].                                *)
Edges(v, a) ==
    LET n == Len(v)
    IN  [k \in 1..(n * (n - 1)) |->
            LET i == ((k - 1) \div (n - 1)) + 1
                jj == ((k - 1) % (n - 1)) + 1
                j == IF jj < i THEN jj ELSE jj + 1
            IN  <<i, j, v[i][a[i]] - v[i][a[j]]>>]

(* One pass of "for u, v, w in edges" from edge k on.  d.fin is the set of   *)
(* players whose dist is not -inf.                                           *)
RECURSIVE RelaxEdges(_, _, _)
RelaxEdges(d, edges, k) ==
    IF k > Len(edges) THEN d
    ELSE LET u == edges[k][1]
             v == edges[k][2]
             w == edges[k][3]
         IN  IF u \in d.fin /\ (v \notin d.fin \/ d.dist[u] + w > d.dist[v])
             THEN RelaxEdges([dist |-> [d.dist EXCEPT ![v] = d.dist[u] + w],
                              fin |-> d.fin \cup {v},
                              improved |-> TRUE], edges, k + 1)
             ELSE RelaxEdges(d, edges, k + 1)

(* "for _ in range(n - 1)" with the break when no edge improved. *)
RECURSIVE RelaxRounds(_, _, _)
RelaxRounds(d, edges, rounds) ==
    IF rounds = 0 THEN d
    ELSE LET nd == RelaxEdges([d EXCEPT !.improved = FALSE], edges, 1)
         IN  IF ~ nd.improved THEN nd
             ELSE RelaxRounds(nd, edges, rounds - 1)

(* longest_paths_from(src). *)
LongestPathsFrom(src, n, edges) ==
    RelaxRounds([dist |-> [i \in 1..n |-> 0], fin |-> {src}, improved |-> FALSE],
                edges, n - 1)

(* max(longest_paths_from(i)). *)
Potential(i, n, edges) ==
    LET d == LongestPathsFrom(i, n, edges)
    IN  CHOOSE m \in {d.dist[j] : j \in d.fin} :
            \A j \in d.fin : d.dist[j] <= m

(* prices = [p - shift for p in potentials], shift = (sum - rent) / n; every *)
(* price times n.                                                            *)
Prices(v, a, r) ==
    LET n == Len(v)
        edges == Edges(v, a)
        potentials == [i \in 1..n |-> Potential(i, n, edges)]
    IN  [i \in 1..n |-> n * potentials[i] - (SumSeq(potentials) - r)]

(* Some player i values the room of a player j, at its price, above their    *)
(* own: the condition under which the assert of the verification fails.      *)
Envy(v, a, p) ==
    \E i, j \in 1..Len(v) :
        /\ i # j
        /\ Len(v) * v[i][a[i]] - p[i] < Len(v) * v[i][a[j]] - p[j]

(* One call: the assignment, the prices, and with verbose the verification,  *)
(* whose assert raises AssertionError.                                       *)
EnvyFreeRoomAllocation ==
    /\ room.status = "pending"
    /\ valuations # <<>>
    /\ \E a \in LinearSumAssignment(valuations) :
           LET p == Prices(valuations, a, rent)
           IN  room' = [status |-> IF verbose /\ Envy(valuations, a, p)
                                   THEN "raised" ELSE "returned",
                        assignment |-> a,
                        prices |-> p]
    /\ UNCHANGED <<valuations, rent, verbose>>
    /\ UNCHANGED <<varsBudget, varsMedian, varsEgal>>

InitRoom ==
    /\ valuations \in UNION {[1..n -> [1..n -> 0..MaxValuation]] : n \in 1..RoomMaxPlayers}
    /\ rent \in 0..MaxRent
    /\ verbose \in BOOLEAN
    /\ room = [status |-> "pending", assignment |-> <<>>, prices |-> <<>>]
    /\ IdleBudget
    /\ IdleMedian
    /\ IdleEgal

NextRoom == EnvyFreeRoomAllocation

SpecRoom == InitRoom /\ [][NextRoom]_vars

(* C4: the call returns (the assert does not fail), and no player values     *)
(* another player's room at its price above their own room at its price.     *)
C4_EnvyFree ==
    room.status # "pending" =>
        /\ room.status = "returned"
        /\ ~ Envy(valuations, room.assignment, room.prices)

-----------------------------------------------------------------------------
(* nitay_levy_matala_3.py: egalitarian_assignment.  Persons and items are    *)
(* numbered from 1; lo, hi and mid index unique_values from 0 as in the      *)
(* code.  In a matching 0 stands for -1, a person without an item.           *)

(* unique_values = np.unique(mat): the entries, ascending, without repeats. *)
UniqueValues(m) ==
    SetToSortedSeq({m[i][j] : i \in 1..Len(m), j \in 1..Len(m)})

(* A graph that keeps only the utilities above the threshold. *)
AdjacencyAbove(m, threshold) ==
    [i \in 1..Len(m) |-> [j \in 1..Len(m) |-> m[i][j] > threshold]]

(* adjacency = (mat >= threshold). *)
Adjacency(m, threshold) ==
    [i \in 1..Len(m) |-> [j \in 1..Len(m) |-> m[i][j] >= threshold]]

(* The matchings of the graph: every matched person has an edge to their     *)
(* item, no item is matched twice.                                           *)
Matchings(adj) ==
    {match \in [1..Len(adj) -> 0..Len(adj)] :
        /\ \A i \in 1..Len(adj) : match[i] # 0 => adj[i][match[i]]
        /\ \A i, j \in 1..Len(adj) :
               (match[i] # 0 /\ match[i] = match[j]) => i = j}

Size(match) == Cardinality({i \in 1..Len(match) : match[i] # 0})

(* maximum_bipartite_matching(graph, perm_type='column'): the matchings of   *)
(* greatest size, any of which the call may return.                          *)
MaximumBipartiteMatching(adj) ==
    LET all == Matchings(adj)
        sizes == {Size(match) : match \in all}
        largest == CHOOSE k \in sizes : \A l \in sizes : l <= k
    IN  {match \in all : Size(match) = largest}

(* np.all(match != -1) *)
Perfect(match) == \A i \in 1..Len(match) : match[i] # 0

(* mid = (lo + hi) // 2 *)
Mid == (lo + hi) \div 2

(* threshold = unique_values[mid] *)
Threshold == UniqueValues(mat)[Mid + 1]

(* An iteration of the while loop that finds a perfect matching. *)
PerfectMatchingFound ==
    /\ egal_pc = "loop"
    /\ lo <= hi
    /\ \E threshold \in {Threshold} :
       \E adjacency \in {Adjacency(mat, threshold)} :
       \E match \in MaximumBipartiteMatching(adjacency) :
           /\ Perfect(match)
           /\ best_threshold' = threshold
           /\ best_assignment' = match
           /\ lo' = Mid + 1
    /\ UNCHANGED <<mat, hi, egal_pc>>
    /\ UNCHANGED <<varsBudget, varsMedian, varsRoom>>

(* An iteration of the while loop that finds none. *)
NoPerfectMatching ==
    /\ egal_pc = "loop"
    /\ lo <= hi
    /\ \E threshold \in {Threshold} :
       \E adjacency \in {Adjacency(mat, threshold)} :
       \E match \in MaximumBipartiteMatching(adjacency) :
           /\ ~ Perfect(match)
           /\ hi' = Mid - 1
    /\ UNCHANGED <<mat, lo, best_threshold, best_assignment, egal_pc>>
    /\ UNCHANGED <<varsBudget, varsMedian, varsRoom>>

(* return best_threshold, best_assignment *)
Return ==
    /\ egal_pc = "loop"
    /\ lo > hi
    /\ egal_pc' = "returned"
    /\ UNCHANGED <<mat, lo, hi, best_threshold, best_assignment>>
    /\ UNCHANGED <<varsBudget, varsMedian, varsRoom>>

(* Square utility matrices. *)
UtilityMatrices ==
    {m \in UNION {[1..n -> [1..n -> 0..MaxUtility]] : n \in 1..EgalMaxPersons} :
        SumSeq([i \in 1..Len(m) |-> SumSeq(m[i])]) <= MaxTotalUtility}

(* The state before the while loop. *)
InitEgal ==
    /\ mat \in UtilityMatrices
    /\ lo = 0
    /\ hi = Len(UniqueValues(mat)) - 1
    /\ best_threshold = UniqueValues(mat)[1]
    /\ best_assignment = <<>>
    /\ egal_pc = "loop"
    /\ IdleBudget
    /\ IdleMedian
    /\ IdleRoom

NextEgal == PerfectMatchingFound \/ NoPerfectMatching \/ Return

SpecEgal == InitEgal /\ [][NextEgal]_vars

(* The least utility of an assignment. *)
MinUtility(m, a) ==
    CHOOSE u \in {m[i][a[i]] : i \in 1..Len(m)} :
        \A i \in 1..Len(m) : u <= m[i][a[i]]

(* The greatest least utility over the perfect assignments. *)
MaxMin(m) ==
    CHOOSE u \in {MinUtility(m, a) : a \in Assignments(Len(m))} :
        \A a \in Assignments(Len(m)) : MinUtility(m, a) <= u

(* What C5 says of the returned pair. *)
EgalitarianOptimum ==
    /\ best_threshold = MaxMin(mat)
    /\ best_assignment \in Assignments(Len(mat))
    /\ \A i \in 1..Len(mat) : mat[i][best_assignment[i]] >= best_threshold

(* C5: the binary search terminates (every iteration narrows the interval    *)
(* lo..hi, which is never emptier than hi = lo - 1, until the return), and   *)
(* it returns the greatest least utility over the perfect assignments with   *)
(* a perfect assignment (not None) whose utilities are all at least that     *)
(* threshold.                                                                *)
C5_EgalitarianOptimum ==
    /\ [](egal_pc = "returned" => EgalitarianOptimum)
    /\ [][\/ egal_pc = "loop" /\ lo > hi /\ egal_pc' = "returned"
          \/ egal_pc' = "loop" /\ hi' - lo' < hi - lo /\ hi' - lo' >= -1]_vars

(* C5 happens: the search has returned a threshold above the least entry,    *)
(* after iterations of both kinds.                                           *)
C5_Witness ==
    /\ egal_pc = "returned"
    /\ EgalitarianOptimum
    /\ best_threshold > UniqueValues(mat)[1]
    /\ hi < Len(UniqueValues(mat)) - 1

-----------------------------------------------------------------------------
(* The repository as a whole: one of its programs runs. *)

Init == InitBudget \/ InitMedian \/ InitRoom \/ InitEgal

Next == NextBudget \/ NextMedian \/ NextRoom \/ NextEgal

Spec == Init /\ [][Next]_vars

=============================================================================
